---- MODULE Spec2Model ----
(***************************************************************************)
(* A model of the personal-finance ledger of src/app.py: the relational    *)
(* store (six tables), the login sessions, and one action per request      *)
(* handler.  A handler is one atomic step: every handler of app.py ends in *)
(* exactly one db.session.commit(), and a handler that raises before its   *)
(* commit leaves the store as it was (the request's session is discarded). *)
(* The store is SQLite as app.py configures it (line 12): integer primary  *)
(* keys are allocated as max(id)+1, and foreign keys are not enforced.     *)
(* Amounts and balances are integers (the code's floats, without their     *)
(* rounding).                                                              *)
(***************************************************************************)
EXTENDS Integers, FiniteSets, Sequences

\* ---------------------------------------------------------------- bounds
MaxAccounts == 2
MaxTransactions == 2
MaxInvestments == 1
MaxCategories == 21

\* ---------------------------------------------------------------- inputs
Usernames == {"alice", "bob"}
Balances == {5}
\* The (amount, type) pairs a transaction form submits.
TransactionForms ==
    { [amount |-> 1, type |-> "income"], [amount |-> 2, type |-> "income"],
      [amount |-> 1, type |-> "expense"], [amount |-> 1, type |-> "transfer"] }
CategoryNames == {"Salary", "Travel"}
Months == {1}
Years == {2024}
BudgetAmounts == {0, 100}
\* The routing_number fields of the account forms: empty, a number of the bank
\* database plain and after a blank, that number with a wrong check digit, and
\* nine digits of which one is not decimal.
AccountRoutingForms ==
    { <<>>,
      <<"0", "2", "1", "0", "0", "0", "0", "2", "1">>,
      <<" ", "0", "2", "1", "0", "0", "0", "0", "2", "1">>,
      <<"0", "2", "1", "0", "0", "0", "0", "2", "2">>,
      <<"0", "2", "1", "0", "0", "0", "0", "2", "sup2">> }
\* The account_number fields: empty, six digits with a hyphen, and two digits
\* after a letter.
AccountNumberForms ==
    { <<>>,
      <<"1", "2", "-", "3", "4", "5", "6">>,
      <<"a", "7", "sup2">> }
\* The bank_name fields.
BankNameForms == {"", "My Bank"}
\* The (month, year) pairs of the budget forms.
BudgetPeriods == {[month |-> 1, year |-> 2024], [month |-> 1, year |-> 2025]}
None == 0
\* The (shares, purchase_price, current_price) an investment form submits; an empty
\* current_price field is stored as None.
InvestmentForms ==
    { [shares |-> 1, purchase_price |-> 10, current_price |-> None],
      [shares |-> 2, purchase_price |-> 10, current_price |-> 15] }
UserIds == 1..Cardinality(Usernames)
AccountIds == 1..MaxAccounts
TransactionIds == 1..MaxTransactions
\* Category ids a form names: none, the first user's first default category, the
\* second user's, and the ids add_category allocates after the defaults.
CategoryIdInputs == {None, 1, 21}
CategoryIdsToDelete == {1, 11} \cup (21..MaxCategories)

\* users, accounts, categories, transactions, investments, budgets: the six tables,
\*   each a function from the ids of its rows to the rows.
\* sessions: the user ids that hold a login session (flask_login's session cookie).
\* opening: for each account, the balance add_account created it with (a history
\*   variable: the code does not store it).
\* response: the answer to the last request: the message it flashed, or the status
\*   of the error it ended in.
\* old_account_id: edit_transaction's local of that name after a committed edit,
\*   None after any other request.
\* routing_number: the string the bank_lookup functions are called on.
\* result: what the last call of a bank_lookup function returned or raised, or the
\*   body of the last answer of api_net_worth.
VARIABLES users, sessions, accounts, categories, transactions, investments,
          budgets, opening, response, old_account_id, routing_number, result

tables == <<users, accounts, categories, transactions, investments, budgets>>
vars == <<users, sessions, accounts, categories, transactions, investments,
          budgets, opening, response, old_account_id, routing_number, result>>

\* No bank_lookup function has been called yet.
NoCall == [function |-> "none"]

\* ---------------------------------------------------------------- store helpers
Max(S) == CHOOSE x \in S : \A y \in S : y <= x

\* SQLite rowid allocation for INTEGER PRIMARY KEY: one more than the largest id.
NextId(S) == IF S = {} THEN 1 ELSE Max(S) + 1

Insert(f, k, v) == [x \in DOMAIN f \cup {k} |-> IF x = k THEN v ELSE f[x]]

Remove(f, S) == [x \in DOMAIN f \ S |-> f[x]]

Empty == [x \in {} |-> 0]

\* current_user.is_authenticated: the session names a user that load_user finds.
Authenticated(u) == u \in sessions /\ u \in DOMAIN users

\* The default categories register creates, in order.
DefaultCategories ==
    << [name |-> "Salary", type |-> "income"],
       [name |-> "Freelance", type |-> "income"],
       [name |-> "Groceries", type |-> "expense"],
       [name |-> "Rent", type |-> "expense"],
       [name |-> "Utilities", type |-> "expense"],
       [name |-> "Transportation", type |-> "expense"],
       [name |-> "Entertainment", type |-> "expense"],
       [name |-> "Healthcare", type |-> "expense"],
       [name |-> "Stocks", type |-> "investment"],
       [name |-> "Bonds", type |-> "investment"] >>

\* ---------------------------------------------------------------- balance arithmetic
\* Mutants of the four call sites (each a slip in the if/elif chain).
AddApplyNoExpense(balance, amount, type) ==
    IF type = "income" THEN balance + amount ELSE balance

AddApplyElse(balance, amount, type) ==
    IF type = "income" THEN balance + amount ELSE balance - amount

EditRevertNothing(balance, amount, type) == balance

EditRevertOnlyIncome(balance, amount, type) ==
    IF type = "income" THEN balance - amount ELSE balance

EditApplyWrongSign(balance, amount, type) ==
    IF type = "income" THEN balance + amount
    ELSE IF type = "expense" THEN balance + amount
    ELSE balance

DeleteRevertWrongSign(balance, amount, type) ==
    IF type = "income" THEN balance + amount
    ELSE IF type = "expense" THEN balance - amount
    ELSE balance

\* add_transaction: account.balance after the new transaction's effect.
AddApply(balance, amount, type) ==
    IF type = "income" THEN balance + amount
    ELSE IF type = "expense" THEN balance - amount
    ELSE balance

\* edit_transaction: old_account.balance after the old effect is reverted.
EditRevert(balance, amount, type) ==
    IF type = "income" THEN balance - amount
    ELSE IF type = "expense" THEN balance + amount
    ELSE balance

\* edit_transaction: new_account.balance after the new effect is applied.
EditApply(balance, amount, type) ==
    IF type = "income" THEN balance + amount
    ELSE IF type = "expense" THEN balance - amount
    ELSE balance

\* delete_transaction: account.balance after the transaction's effect is reverted.
DeleteRevert(balance, amount, type) ==
    IF type = "income" THEN balance - amount
    ELSE IF type = "expense" THEN balance + amount
    ELSE balance

\* ---------------------------------------------------------------- initial state
\* db.create_all() on a new database: every table empty, nobody logged in.
Init ==
    /\ users = Empty
    /\ sessions = {}
    /\ accounts = Empty
    /\ categories = Empty
    /\ transactions = Empty
    /\ investments = Empty
    /\ budgets = Empty
    /\ opening = Empty
    /\ response = "none"
    /\ old_account_id = None
    /\ routing_number = <<>>
    /\ result = NoCall

\* ---------------------------------------------------------------- bank lookup
\* A string is the sequence of its characters, each a one-character string; "sup2"
\* stands for the one character SUPERSCRIPT TWO.

\* BANK_ROUTING_DATABASE, in the order the dict literal lists its items.
BANK_ROUTING_DATABASE ==
    << [routing |-> <<"0", "2", "1", "0", "0", "0", "0", "2", "1">>,
        bank |-> "Chase Bank"],
       [routing |-> <<"0", "2", "1", "0", "0", "0", "3", "2", "2">>,
        bank |-> "Chase Bank"],
       [routing |-> <<"0", "2", "2", "0", "0", "0", "0", "2", "0">>,
        bank |-> "Chase Bank"],
       [routing |-> <<"1", "2", "5", "0", "0", "0", "0", "2", "4">>,
        bank |-> "Wells Fargo Bank"],
       [routing |-> <<"1", "2", "1", "0", "0", "0", "2", "4", "8">>,
        bank |-> "Wells Fargo Bank"],
       [routing |-> <<"1", "1", "1", "0", "0", "0", "0", "2", "5">>,
        bank |-> "Bank of America"],
       [routing |-> <<"0", "2", "6", "0", "0", "9", "5", "9", "3">>,
        bank |-> "Bank of America"],
       [routing |-> <<"1", "2", "1", "0", "4", "2", "8", "8", "2">>,
        bank |-> "Wells Fargo Bank"],
       [routing |-> <<"0", "5", "3", "0", "0", "0", "1", "9", "6">>,
        bank |-> "Bank of America"],
       [routing |-> <<"0", "5", "4", "0", "0", "1", "2", "0", "4">>,
        bank |-> "Bank of America"],
       [routing |-> <<"0", "6", "3", "1", "0", "0", "2", "7", "7">>,
        bank |-> "JPMorgan Chase Bank"],
       [routing |-> <<"2", "6", "7", "0", "8", "4", "1", "3", "1">>,
        bank |-> "JPMorgan Chase Bank"],
       [routing |-> <<"0", "2", "1", "2", "0", "0", "0", "2", "5">>,
        bank |-> "JPMorgan Chase Bank"],
       [routing |-> <<"1", "2", "2", "1", "0", "5", "2", "7", "8">>,
        bank |-> "Wells Fargo Bank"],
       [routing |-> <<"1", "1", "4", "0", "0", "0", "0", "9", "3">>,
        bank |-> "PNC Bank"],
       [routing |-> <<"0", "4", "3", "0", "0", "0", "0", "9", "6">>,
        bank |-> "PNC Bank"],
       [routing |-> <<"0", "5", "4", "0", "0", "0", "0", "3", "0">>,
        bank |-> "Citizens Bank"],
       [routing |-> <<"2", "1", "1", "2", "7", "4", "4", "5", "0">>,
        bank |-> "TD Bank"],
       [routing |-> <<"0", "3", "1", "2", "0", "1", "3", "6", "0">>,
        bank |-> "TD Bank"],
       [routing |-> <<"0", "3", "1", "1", "0", "0", "2", "0", "9">>,
        bank |-> "TD Bank"],
       [routing |-> <<"1", "0", "1", "0", "0", "0", "0", "1", "9">>,
        bank |-> "Bank of the West"],
       [routing |-> <<"3", "2", "1", "2", "7", "0", "7", "4", "2">>,
        bank |-> "Huntington National Bank"],
       [routing |-> <<"0", "4", "4", "0", "0", "0", "0", "2", "4">>,
        bank |-> "Huntington National Bank"],
       [routing |-> <<"3", "0", "7", "0", "7", "0", "1", "1", "5">>,
        bank |-> "Navy Federal Credit Union"],
       [routing |-> <<"2", "5", "6", "0", "7", "4", "9", "7", "4">>,
        bank |-> "Navy Federal Credit Union"],
       [routing |-> <<"2", "1", "1", "3", "9", "1", "8", "2", "5">>,
        bank |-> "USAA Federal Savings Bank"],
       [routing |-> <<"3", "1", "4", "0", "7", "4", "2", "6", "9">>,
        bank |-> "Pentagon Federal Credit Union"],
       [routing |-> <<"2", "5", "3", "1", "7", "7", "8", "3", "2">>,
        bank |-> "Pentagon Federal Credit Union"],
       [routing |-> <<"2", "6", "3", "1", "7", "9", "8", "1", "7">>,
        bank |-> "Publix Employees Federal Credit Union (PEFCU)"],
       [routing |-> <<"3", "2", "2", "2", "7", "1", "6", "2", "7">>,
        bank |-> "Regions Bank"],
       [routing |-> <<"0", "6", "2", "0", "0", "0", "0", "1", "9">>,
        bank |-> "Regions Bank"],
       [routing |-> <<"0", "6", "5", "4", "0", "0", "1", "3", "7">>,
        bank |-> "KeyBank"],
       [routing |-> <<"0", "4", "1", "0", "0", "1", "0", "3", "9">>,
        bank |-> "KeyBank"],
       [routing |-> <<"0", "3", "1", "1", "7", "6", "1", "1", "0">>,
        bank |-> "Ally Bank"],
       [routing |-> <<"1", "2", "4", "3", "0", "3", "1", "2", "0">>,
        bank |-> "Capital One Bank"],
       [routing |-> <<"0", "5", "1", "4", "0", "5", "5", "1", "5">>,
        bank |-> "Capital One Bank"],
       [routing |-> <<"1", "0", "3", "1", "0", "0", "1", "9", "5">>,
        bank |-> "ING Direct (Capital One 360)"],
       [routing |-> <<"0", "3", "1", "1", "0", "0", "6", "4", "9">>,
        bank |-> "Discover Bank"],
       [routing |-> <<"0", "1", "1", "1", "0", "3", "0", "9", "3">>,
        bank |-> "American Express Bank"] >>

ROUTING_REGIONS ==
    { [prefix |-> <<"0", "2", "1", "0">>, region |-> "Boston, MA"],
      [prefix |-> <<"0", "2", "1", "1">>, region |-> "Boston, MA"],
      [prefix |-> <<"0", "2", "1", "2">>, region |-> "New York, NY"],
      [prefix |-> <<"0", "2", "1", "3">>, region |-> "New York, NY"],
      [prefix |-> <<"0", "2", "1", "4">>, region |-> "Philadelphia, PA"],
      [prefix |-> <<"0", "2", "1", "5">>, region |-> "Philadelphia, PA"],
      [prefix |-> <<"0", "2", "1", "6">>, region |-> "Cleveland, OH"],
      [prefix |-> <<"0", "2", "1", "7">>, region |-> "Cleveland, OH"],
      [prefix |-> <<"0", "2", "1", "8">>, region |-> "Richmond, VA"],
      [prefix |-> <<"0", "2", "1", "9">>, region |-> "Richmond, VA"],
      [prefix |-> <<"0", "2", "2", "0">>, region |-> "Atlanta, GA"],
      [prefix |-> <<"0", "2", "2", "1">>, region |-> "Atlanta, GA"],
      [prefix |-> <<"0", "2", "2", "2">>, region |-> "Chicago, IL"],
      [prefix |-> <<"0", "2", "2", "3">>, region |-> "Chicago, IL"],
      [prefix |-> <<"0", "2", "2", "4">>, region |-> "St. Louis, MO"],
      [prefix |-> <<"0", "2", "2", "5">>, region |-> "St. Louis, MO"],
      [prefix |-> <<"0", "2", "2", "6">>, region |-> "Minneapolis, MN"],
      [prefix |-> <<"0", "2", "2", "7">>, region |-> "Minneapolis, MN"],
      [prefix |-> <<"0", "2", "2", "8">>, region |-> "Kansas City, MO"],
      [prefix |-> <<"0", "2", "2", "9">>, region |-> "Kansas City, MO"],
      [prefix |-> <<"0", "2", "3", "0">>, region |-> "Dallas, TX"],
      [prefix |-> <<"0", "2", "3", "1">>, region |-> "Dallas, TX"],
      [prefix |-> <<"0", "2", "3", "2">>, region |-> "San Francisco, CA"],
      [prefix |-> <<"0", "2", "3", "3">>, region |-> "San Francisco, CA"] }

\* The order of str comparison (by code point) on the bank names of the database.
bank_name_order ==
    << "Ally Bank",
       "American Express Bank",
       "Bank of America",
       "Bank of the West",
       "Capital One Bank",
       "Chase Bank",
       "Citizens Bank",
       "Discover Bank",
       "Huntington National Bank",
       "ING Direct (Capital One 360)",
       "JPMorgan Chase Bank",
       "KeyBank",
       "Navy Federal Credit Union",
       "PNC Bank",
       "Pentagon Federal Credit Union",
       "Publix Employees Federal Credit Union (PEFCU)",
       "Regions Bank",
       "TD Bank",
       "USAA Federal Savings Bank",
       "Wells Fargo Bank" >>

\* The characters int() reads as a decimal digit, in the order of their values.
decimal_characters == <<"0", "1", "2", "3", "4", "5", "6", "7", "8", "9">>

\* The characters str.isdigit() accepts: the decimal digits and the digits that are
\* not decimal, such as the superscript digits.
digit_characters == {decimal_characters[n] : n \in DOMAIN decimal_characters} \cup {"sup2"}

\* str.isdigit(): at least one character, and every character a digit.
isdigit(s) == s # <<>> /\ \A i \in DOMAIN s : s[i] \in digit_characters

\* int(digit) raises ValueError on a character that is not a decimal digit.
int_raises(digit) == \A n \in DOMAIN decimal_characters : decimal_characters[n] # digit

int(digit) == (CHOOSE n \in DOMAIN decimal_characters : decimal_characters[n] = digit) - 1

\* Mutant: only the first occurrence of old is removed.
replace_first(s, old) ==
    IF \E i \in DOMAIN s : s[i] = old
    THEN LET first == CHOOSE i \in DOMAIN s :
                         s[i] = old /\ \A j \in 1..(i - 1) : s[j] # old
         IN SubSeq(s, 1, first - 1) \o SubSeq(s, first + 1, Len(s))
    ELSE s

\* str.replace(old, ""), for a one-character old.
replace(s, old) == SelectSeq(s, LAMBDA c : c # old)

startswith(s, prefix) ==
    Len(prefix) <= Len(s) /\ SubSeq(s, 1, Len(prefix)) = prefix

\* s[:n]
slice(s, n) == SubSeq(s, 1, IF n < Len(s) THEN n ELSE Len(s))

\* What a call does: it returns a value or raises.
Return(v) == [raised |-> FALSE, value |-> v]
Raise(e) == [raised |-> TRUE, error |-> e]

coefficients == <<3, 7, 1, 3, 7, 1, 3, 7, 1>>

\* sum(int(digit) * coeff for digit, coeff in zip(routing_number, coefficients)),
\* over the first n pairs.
RECURSIVE total(_, _)
total(s, n) ==
    IF n = 0 THEN 0 ELSE int(s[n]) * coefficients[n] + total(s, n - 1)

\* Mutant: the check digit is not tested.
validate_routing_number_by_length(s) == Return(Len(s) = 9)

validate_routing_number(s) ==
    IF s = <<>> \/ Len(s) # 9 THEN Return(FALSE)
    ELSE IF ~isdigit(s) THEN Return(FALSE)
    ELSE IF \E i \in DOMAIN s : int_raises(s[i]) THEN Raise("ValueError")
    ELSE Return(total(s, Len(s)) % 10 = 0)

\* BANK_ROUTING_DATABASE.get(s): the bank name, or None (written "": both are
\* false in a condition, and no bank name is empty).
get_bank_name(s) ==
    IF \E i \in DOMAIN BANK_ROUTING_DATABASE : BANK_ROUTING_DATABASE[i].routing = s
    THEN BANK_ROUTING_DATABASE[CHOOSE i \in DOMAIN BANK_ROUTING_DATABASE :
                                  BANK_ROUTING_DATABASE[i].routing = s].bank
    ELSE ""

\* Mutant: the region is looked up by the first three digits.
get_region_by_three(s) ==
    IF \E r \in ROUTING_REGIONS : r.prefix = slice(s, 3)
    THEN (CHOOSE r \in ROUTING_REGIONS : r.prefix = slice(s, 3)).region
    ELSE "Unknown Region"

\* ROUTING_REGIONS.get(s[:4], "Unknown Region")
get_region(s) ==
    IF \E r \in ROUTING_REGIONS : r.prefix = slice(s, 4)
    THEN (CHOOSE r \in ROUTING_REGIONS : r.prefix = slice(s, 4)).region
    ELSE "Unknown Region"

\* s.startswith((p1, p2, ...))
startswith_any(s, prefixes) == \E p \in prefixes : startswith(s, p)

\* Mutant: the Bank of America branch is tested with the Wells Fargo prefixes.
bank_guess_swapped(s) ==
    IF startswith_any(s, {<<"0", "2", "1">>, <<"2", "6", "7">>, <<"0", "6", "3">>})
    THEN "Chase Bank (likely)"
    ELSE IF startswith_any(s, {<<"1", "1", "1">>, <<"0", "2", "6">>,
                               <<"0", "5", "3">>, <<"0", "5", "4">>})
    THEN "Wells Fargo Bank (likely)"
    ELSE IF startswith_any(s, {<<"1", "2", "1">>, <<"1", "2", "5">>})
    THEN "Bank of America (likely)"
    ELSE IF startswith_any(s, {<<"1", "1", "4">>, <<"0", "4", "3">>})
    THEN "PNC Bank (likely)"
    ELSE IF startswith_any(s, {<<"3", "2", "2">>, <<"0", "6", "2">>})
    THEN "Regions Bank (likely)"
    ELSE ""

\* bank_guess after the chain of prefix tests; None is written "".
bank_guess(s) ==
    IF startswith_any(s, {<<"0", "2", "1">>, <<"2", "6", "7">>, <<"0", "6", "3">>})
    THEN "Chase Bank (likely)"
    ELSE IF startswith_any(s, {<<"1", "2", "1">>, <<"1", "2", "5">>})
    THEN "Wells Fargo Bank (likely)"
    ELSE IF startswith_any(s, {<<"1", "1", "1">>, <<"0", "2", "6">>,
                               <<"0", "5", "3">>, <<"0", "5", "4">>})
    THEN "Bank of America (likely)"
    ELSE IF startswith_any(s, {<<"1", "1", "4">>, <<"0", "4", "3">>})
    THEN "PNC Bank (likely)"
    ELSE IF startswith_any(s, {<<"3", "2", "2">>, <<"0", "6", "2">>})
    THEN "Regions Bank (likely)"
    ELSE ""

\* The value None where a dict is expected: the result with no key.
NoDict == [k \in {} |-> None]

lookup_bank_by_routing(s) ==
    IF s = <<>> THEN Return(NoDict)
    ELSE LET cleaned == replace(replace(s, "-"), " ")
             checked == validate_routing_number(cleaned)
         IN IF checked.raised THEN checked
            ELSE IF ~checked.value
            THEN Return([valid |-> FALSE,
                         error |-> "Invalid routing number format or checksum"])
            ELSE IF get_bank_name(cleaned) # ""
            THEN Return([valid |-> TRUE,
                         bank_name |-> get_bank_name(cleaned),
                         routing_number |-> cleaned,
                         region |-> get_region(cleaned),
                         source |-> "direct_match"])
            ELSE Return([valid |-> TRUE,
                         bank_name |-> IF bank_guess(cleaned) # ""
                                       THEN bank_guess(cleaned) ELSE "Unknown Bank",
                         routing_number |-> cleaned,
                         region |-> get_region(cleaned),
                         source |-> IF bank_guess(cleaned) # ""
                                    THEN "pattern_match" ELSE "region_only"])

\* The position of a bank name in the order of str comparison.
bank_name_key(name) ==
    CHOOSE n \in DOMAIN bank_name_order : bank_name_order[n] = name

\* Mutant: the suggestions are left in the order of the database.
sort_skipped(suggestions) == suggestions

\* suggestions.sort(key=lambda x: x["bank_name"]): a stable sort, so entries of one
\* bank keep the order in which they were appended.
RECURSIVE sort(_)
sort(suggestions) ==
    IF suggestions = <<>> THEN <<>>
    ELSE LET last == suggestions[Len(suggestions)]
             rest == sort(SubSeq(suggestions, 1, Len(suggestions) - 1))
         IN SelectSeq(rest, LAMBDA x : bank_name_key(x.bank_name)
                                           <= bank_name_key(last.bank_name))
            \o <<last>>
            \o SelectSeq(rest, LAMBDA x : bank_name_key(x.bank_name)
                                             > bank_name_key(last.bank_name))

get_bank_suggestions(partial_routing) ==
    IF partial_routing = <<>> \/ Len(partial_routing) < 3 THEN Return(<<>>)
    ELSE LET matching == SelectSeq(BANK_ROUTING_DATABASE,
                                   LAMBDA e : startswith(e.routing, partial_routing))
             suggestions ==
                [i \in DOMAIN matching |->
                    [routing_number |-> matching[i].routing,
                     bank_name |-> matching[i].bank,
                     formatted_routing |->
                        slice(matching[i].routing, 3) \o <<"-">>
                        \o SubSeq(matching[i].routing, 4, 6) \o <<"-">>
                        \o SubSeq(matching[i].routing, 7, Len(matching[i].routing))]]
         IN Return(slice(sort(suggestions), 10))

\* A call of one of the three functions on the string routing_number.
call_validate_routing_number ==
    /\ result' = [function |-> "validate_routing_number",
                  outcome |-> validate_routing_number(routing_number)]
    /\ UNCHANGED <<tables, sessions, opening, response, old_account_id, routing_number>>

call_lookup_bank_by_routing ==
    /\ result' = [function |-> "lookup_bank_by_routing",
                  outcome |-> lookup_bank_by_routing(routing_number)]
    /\ UNCHANGED <<tables, sessions, opening, response, old_account_id, routing_number>>

call_get_bank_suggestions ==
    /\ result' = [function |-> "get_bank_suggestions",
                  outcome |-> get_bank_suggestions(routing_number)]
    /\ UNCHANGED <<tables, sessions, opening, response, old_account_id, routing_number>>

\* The positions of the list get_bank_suggestions returns: suggestions[:10].
SuggestionPositions == 1..10

\* A call of lookup_bank_by_routing on the formatted_routing of the n-th suggestion
\* that get_bank_suggestions has just returned.
call_lookup_bank_by_routing_on_suggestion(n) ==
    /\ result.function = "get_bank_suggestions"
    /\ ~result.outcome.raised
    /\ n \in DOMAIN result.outcome.value
    /\ routing_number' = result.outcome.value[n].formatted_routing
    /\ result' = [function |-> "lookup_bank_by_routing",
                  suggestion |-> result.outcome.value[n],
                  outcome |-> lookup_bank_by_routing(
                                 result.outcome.value[n].formatted_routing)]
    /\ UNCHANGED <<tables, sessions, opening, response, old_account_id>>

\* The routing numbers of the database.
routings == {BANK_ROUTING_DATABASE[i].routing : i \in DOMAIN BANK_ROUTING_DATABASE}

\* The characters of the input strings: the digits, the two separators, a letter.
Characters == digit_characters \cup {"-", " ", "a"}

\* Eight leading characters of nine-digit numbers: those of the database, every
\* three-digit prefix of the database and every region prefix filled up with
\* zeros, and two that match no table.
Stems ==
    {slice(k, 8) : k \in routings}
    \cup {slice(k, 3) \o <<"0", "0", "0", "0", "0">> : k \in routings}
    \cup {r.prefix \o <<"0", "0", "0", "0">> : r \in ROUTING_REGIONS}
    \cup {<<"1", "1", "1", "1", "1", "1", "1", "1">>,
          <<"9", "9", "9", "0", "0", "0", "0", "0">>}

\* The argument strings: every prefix of a database number (the empty string and
\* the number itself included), every stem with each character appended, the
\* database numbers written with hyphens, with a space, and with one character
\* more, and the strings that hold only a separator.
RoutingInputs ==
    {slice(k, n) : k \in routings, n \in 0..9}
    \cup {Append(st, c) : st \in Stems, c \in Characters}
    \cup {slice(k, 3) \o <<"-">> \o SubSeq(k, 4, 6) \o <<"-">> \o SubSeq(k, 7, 9) :
             k \in routings}
    \cup {<<" ">> \o k : k \in routings}
    \cup {Append(k, c) : k \in routings, c \in {"0", " "}}
    \cup {<<"-">>, <<" ">>}

\* ---------------------------------------------------------------- authentication
register(username) ==
    /\ old_account_id' = None
    /\ UNCHANGED <<routing_number, result>>
    /\ IF \E u \in DOMAIN users : users[u] = username
       THEN /\ response' = "Username already exists!"
            /\ UNCHANGED <<tables, sessions, opening>>
       ELSE LET uid == NextId(DOMAIN users)
                base == NextId(DOMAIN categories) - 1
                new == {base + i : i \in 1..Len(DefaultCategories)}
            IN /\ base + Len(DefaultCategories) <= MaxCategories
               /\ users' = Insert(users, uid, username)
               /\ categories' =
                    [c \in DOMAIN categories \cup new |->
                        IF c \in new
                        THEN [name |-> DefaultCategories[c - base].name,
                              type |-> DefaultCategories[c - base].type,
                              user_id |-> uid]
                        ELSE categories[c]]
               /\ response' = "Registration successful! Please log in."
               /\ UNCHANGED <<sessions, accounts, transactions, investments,
                              budgets, opening>>

login(u) ==
    /\ u \in DOMAIN users
    /\ sessions' = sessions \cup {u}
    /\ response' = "dashboard"
    /\ old_account_id' = None
    /\ UNCHANGED <<routing_number, result>>
    /\ UNCHANGED <<tables, opening>>

logout(u) ==
    /\ Authenticated(u)
    /\ sessions' = sessions \ {u}
    /\ response' = "You have been logged out successfully."
    /\ old_account_id' = None
    /\ UNCHANGED <<routing_number, result>>
    /\ UNCHANGED <<tables, opening>>

\* ---------------------------------------------------------------- accounts
\* Mutant: what the failed request had written in its session reaches the store.
rolled_back_too_late(committed, pending) == pending

\* The table after a request that ended without a commit: the session of the
\* request is removed with its pending writes, and the committed rows stay.
rolled_back(committed, pending) == committed

\* str.strip(): the string without its leading and trailing blanks.
RECURSIVE strip(_)
strip(s) ==
    IF s = <<>> THEN s
    ELSE IF Head(s) = " " THEN strip(Tail(s))
    ELSE IF s[Len(s)] = " " THEN strip(SubSeq(s, 1, Len(s) - 1))
    ELSE s

\* Mutant: the first four digits of the number are kept instead of the last four.
set_account_number_first4(account, account_number) ==
    IF account_number # <<>>
    THEN LET clean_number == SelectSeq(account_number, LAMBDA c : c \in digit_characters)
         IN [account EXCEPT
               !.account_number = account_number,
               !.account_number_last4 =
                  IF Len(clean_number) >= 4
                  THEN SubSeq(clean_number, 1, 4)
                  ELSE clean_number]
    ELSE account

\* Account.set_account_number: the account with the number stored and the last
\* four of its digits extracted; an empty number leaves the account as it is.
set_account_number(account, account_number) ==
    IF account_number # <<>>
    THEN LET clean_number == SelectSeq(account_number, LAMBDA c : c \in digit_characters)
         IN [account EXCEPT
               !.account_number = account_number,
               !.account_number_last4 =
                  IF Len(clean_number) >= 4
                  THEN SubSeq(clean_number, Len(clean_number) - 3, Len(clean_number))
                  ELSE clean_number]
    ELSE account

\* The columns bank_name, routing_number, account_number and account_number_last4
\* hold None or a string that is not empty; None is written as the empty string.
\* The bank names of the forms carry no blanks around them.
add_account(u, name, account_type, balance, routing_form, bank_name_form, account_number_form) ==
    /\ Authenticated(u)
    /\ NextId(DOMAIN accounts) <= MaxAccounts
    /\ old_account_id' = None
    /\ UNCHANGED <<routing_number, result>>
    /\ LET routing == strip(routing_form)
           account_number == strip(account_number_form)
           checked == validate_routing_number(routing)
       IN IF routing # <<>> /\ checked.raised
          THEN \* validate_routing_number raises: nothing is committed
               /\ response' = "500"
               /\ UNCHANGED <<tables, sessions, opening>>
          ELSE IF routing # <<>> /\ ~checked.value
          THEN /\ response' = "Invalid routing number. Please check and try again."
               /\ UNCHANGED <<tables, sessions, opening>>
          ELSE LET bank_info == lookup_bank_by_routing(routing)
                   bank_name ==
                      IF /\ routing # <<>>
                         /\ bank_name_form = ""
                         /\ bank_info.value.valid
                         /\ bank_info.value.bank_name # ""
                      THEN bank_info.value.bank_name
                      ELSE bank_name_form
                   id == NextId(DOMAIN accounts)
                   account == [name |-> name,
                               account_type |-> account_type,
                               balance |-> balance,
                               bank_name |-> bank_name,
                               routing_number |-> routing,
                               account_number |-> <<>>,
                               account_number_last4 |-> <<>>,
                               user_id |-> u]
               IN /\ accounts' =
                       Insert(accounts, id,
                              IF account_number # <<>>
                              THEN set_account_number(account, account_number)
                              ELSE account)
                  /\ opening' = Insert(opening, id, balance)
                  /\ response' =
                       IF bank_name # ""
                       THEN "Account added successfully with " \o bank_name \o "!"
                       ELSE "Account added successfully!"
                  /\ UNCHANGED <<users, sessions, categories, transactions,
                                 investments, budgets>>

\* Account.query.filter_by(id=account_id, user_id=current_user.id).first()
OwnsAccount(u, account_id) ==
    account_id \in DOMAIN accounts /\ accounts[account_id].user_id = u

edit_account(u, account_id, name, account_type, balance, routing_form, bank_name_form, account_number_form) ==
    /\ Authenticated(u)
    /\ old_account_id' = None
    /\ UNCHANGED <<routing_number, result>>
    /\ IF ~OwnsAccount(u, account_id)
       THEN /\ response' = "404"
            /\ UNCHANGED <<tables, sessions, opening>>
       ELSE LET routing == strip(routing_form)
                account_number == strip(account_number_form)
                checked == validate_routing_number(routing)
                pending == [accounts EXCEPT ![account_id].name = name,
                                            ![account_id].account_type = account_type,
                                            ![account_id].balance = balance]
                updated == [pending[account_id] EXCEPT
                              !.routing_number = routing,
                              !.bank_name = bank_name_form]
            IN /\ IF routing # <<>> /\ checked.raised
                  THEN \* validate_routing_number raises: nothing is committed
                       /\ accounts' = rolled_back(accounts, pending)
                       /\ response' = "500"
                  ELSE IF routing # <<>> /\ ~checked.value
                  THEN \* the handler returns the form again, without a commit
                       /\ accounts' = rolled_back(accounts, pending)
                       /\ response' = "Invalid routing number. Please check and try again."
                  ELSE /\ accounts' =
                            [pending EXCEPT ![account_id] =
                                IF account_number # <<>>
                                THEN set_account_number(updated, account_number)
                                ELSE updated]
                       /\ response' = "Account updated successfully!"
               /\ UNCHANGED <<users, sessions, categories, transactions, investments,
                              budgets, opening>>

\* Mutant: the loop over the account's investments deletes nothing.
account_investments_kept(account_id) == {}

\* account.transactions: the backref of Transaction.account.
account_transactions(account_id) ==
    {t \in DOMAIN transactions : transactions[t].account_id = account_id}

\* account.investments: the backref of Investment.account.
account_investments(account_id) ==
    {i \in DOMAIN investments : investments[i].account_id = account_id}

delete_account(u, account_id) ==
    /\ Authenticated(u)
    /\ old_account_id' = None
    /\ UNCHANGED <<routing_number, result>>
    /\ IF ~OwnsAccount(u, account_id)
       THEN /\ response' = "404"
            /\ UNCHANGED <<tables, sessions, opening>>
       ELSE /\ transactions' = Remove(transactions, account_transactions(account_id))
            /\ investments' = Remove(investments, account_investments(account_id))
            /\ accounts' = Remove(accounts, {account_id})
            /\ opening' = Remove(opening, {account_id})
            /\ response' = "Account deleted successfully."
            /\ UNCHANGED <<users, sessions, categories, budgets>>

\* ---------------------------------------------------------------- transactions
add_transaction(u, amount, type, category_id, account_id) ==
    /\ Authenticated(u)
    /\ NextId(DOMAIN transactions) <= MaxTransactions
    /\ old_account_id' = None
    /\ UNCHANGED <<routing_number, result>>
    /\ IF account_id \notin DOMAIN accounts /\ type \in {"income", "expense"}
       THEN \* account is None: account.balance raises, nothing is committed
            /\ response' = "500"
            /\ UNCHANGED <<tables, sessions, opening>>
       ELSE /\ accounts' =
                 IF account_id \in DOMAIN accounts
                 THEN [accounts EXCEPT ![account_id].balance = AddApply(@, amount, type)]
                 ELSE accounts
            /\ transactions' =
                 Insert(transactions, NextId(DOMAIN transactions),
                        [amount |-> amount, type |-> type,
                         category_id |-> category_id, account_id |-> account_id])
            /\ response' = "Transaction added successfully!"
            /\ UNCHANGED <<users, sessions, categories, investments, budgets, opening>>

\* The transactions a request of user u may edit or delete: the join of
\* Transaction and Account filtered by Account.user_id == current_user.id.
OwnsTransaction(u, transaction_id) ==
    /\ transaction_id \in DOMAIN transactions
    /\ transactions[transaction_id].account_id \in DOMAIN accounts
    /\ accounts[transactions[transaction_id].account_id].user_id = u

edit_transaction(u, transaction_id, amount, type, category_id, account_id) ==
    /\ Authenticated(u)
    /\ IF ~OwnsTransaction(u, transaction_id)
       THEN /\ response' = "404"
            /\ old_account_id' = None
            /\ UNCHANGED <<routing_number, result>>
            /\ UNCHANGED <<tables, sessions, opening>>
       ELSE LET old == transactions[transaction_id]
                reverted == [accounts EXCEPT ![old.account_id].balance =
                                EditRevert(@, old.amount, old.type)]
            IN IF account_id \notin DOMAIN accounts /\ type \in {"income", "expense"}
               THEN \* new_account is None: new_account.balance raises after the revert
                    \* and before the commit
                    /\ accounts' = rolled_back(accounts, reverted)
                    /\ response' = "500"
                    /\ old_account_id' = None
                    /\ UNCHANGED <<routing_number, result>>
                    /\ UNCHANGED <<users, sessions, categories, transactions,
                                   investments, budgets, opening>>
               ELSE /\ accounts' =
                         IF account_id \in DOMAIN accounts
                         THEN [reverted EXCEPT ![account_id].balance =
                                  EditApply(@, amount, type)]
                         ELSE reverted
                    /\ transactions' =
                         [transactions EXCEPT ![transaction_id] =
                            [amount |-> amount, type |-> type,
                             category_id |-> category_id, account_id |-> account_id]]
                    /\ response' = "Transaction updated successfully!"
                    /\ old_account_id' = old.account_id
                    /\ UNCHANGED <<routing_number, result>>
                    /\ UNCHANGED <<users, sessions, categories, investments, budgets,
                                   opening>>

delete_transaction(u, transaction_id) ==
    /\ Authenticated(u)
    /\ old_account_id' = None
    /\ UNCHANGED <<routing_number, result>>
    /\ IF ~OwnsTransaction(u, transaction_id)
       THEN /\ response' = "404"
            /\ UNCHANGED <<tables, sessions, opening>>
       ELSE LET t == transactions[transaction_id]
            IN /\ accounts' = [accounts EXCEPT ![t.account_id].balance =
                                  DeleteRevert(@, t.amount, t.type)]
               /\ transactions' = Remove(transactions, {transaction_id})
               /\ response' = "Transaction deleted successfully!"
               /\ UNCHANGED <<users, sessions, categories, investments, budgets,
                              opening>>

\* ---------------------------------------------------------------- investments
add_investment(u, shares, purchase_price, current_price, account_id) ==
    /\ Authenticated(u)
    /\ NextId(DOMAIN investments) <= MaxInvestments
    /\ investments' = Insert(investments, NextId(DOMAIN investments),
                             [shares |-> shares, purchase_price |-> purchase_price,
                              current_price |-> current_price,
                              account_id |-> account_id])
    /\ response' = "Investment added successfully!"
    /\ old_account_id' = None
    /\ UNCHANGED <<routing_number, result>>
    /\ UNCHANGED <<users, sessions, accounts, categories, transactions, budgets,
                   opening>>

\* Python's x or y on prices: x when it is neither None nor 0, and y otherwise.
\* None is written 0.
or(x, y) == IF x # None /\ x # 0 THEN x ELSE y

\* Investment.total_value
total_value(self) == self.shares * or(self.current_price, self.purchase_price)

\* Investment.gain_loss: the subtraction binds tighter than the or.
gain_loss(self) ==
    or(self.current_price, self.purchase_price - self.purchase_price) * self.shares

\* A read of one of the two properties of a stored investment.
call_total_value(i) ==
    /\ i \in DOMAIN investments
    /\ result' = [function |-> "total_value", self |-> investments[i],
                  outcome |-> Return(total_value(investments[i]))]
    /\ UNCHANGED <<tables, sessions, opening, response, old_account_id, routing_number>>

call_gain_loss(i) ==
    /\ i \in DOMAIN investments
    /\ result' = [function |-> "gain_loss", self |-> investments[i],
                  outcome |-> Return(gain_loss(investments[i]))]
    /\ UNCHANGED <<tables, sessions, opening, response, old_account_id, routing_number>>

\* ---------------------------------------------------------------- categories
add_category(u, name, type) ==
    /\ Authenticated(u)
    /\ NextId(DOMAIN categories) <= MaxCategories
    /\ old_account_id' = None
    /\ UNCHANGED <<routing_number, result>>
    /\ IF \E c \in DOMAIN categories :
            categories[c].name = name /\ categories[c].user_id = u
       THEN \* unique_category_per_user: the commit raises IntegrityError
            /\ response' = "500"
            /\ UNCHANGED <<tables, sessions, opening>>
       ELSE /\ categories' = Insert(categories, NextId(DOMAIN categories),
                                    [name |-> name, type |-> type, user_id |-> u])
            /\ response' = "Category added successfully!"
            /\ UNCHANGED <<users, sessions, accounts, transactions, investments,
                           budgets, opening>>

\* Category.query.filter_by(id=category_id, user_id=current_user.id).first()
OwnsCategory(u, category_id) ==
    category_id \in DOMAIN categories /\ categories[category_id].user_id = u

\* Mutant: the count filters on the wrong column.
transaction_count_wrong_column(category_id) ==
    Cardinality({t \in DOMAIN transactions :
                    transactions[t].account_id = category_id})

\* Transaction.query.filter_by(category_id=category_id).count()
transaction_count(category_id) ==
    Cardinality({t \in DOMAIN transactions :
                    transactions[t].category_id = category_id})

delete_category(u, category_id) ==
    /\ Authenticated(u)
    /\ old_account_id' = None
    /\ UNCHANGED <<routing_number, result>>
    /\ IF ~OwnsCategory(u, category_id)
       THEN /\ response' = "Category not found!"
            /\ UNCHANGED <<tables, sessions, opening>>
       ELSE IF transaction_count(category_id) > 0
       THEN /\ response' = "Cannot delete category"
            /\ UNCHANGED <<tables, sessions, opening>>
       ELSE /\ categories' = Remove(categories, {category_id})
            /\ response' = "Category deleted successfully!"
            /\ UNCHANGED <<users, sessions, accounts, transactions, investments,
                           budgets, opening>>

\* ---------------------------------------------------------------- budgets
\* Mutant: the query for the existing budget does not filter on the user.
existing_budget_of_anyone(u, month, year) ==
    {b \in DOMAIN budgets : budgets[b].month = month /\ budgets[b].year = year}

\* The rows of MonthlyBudget.query.filter_by(user_id=current_user.id, month=month,
\* year=year); first() takes the one of lowest id.
existing_budget(u, month, year) ==
    {b \in DOMAIN budgets :
        /\ budgets[b].user_id = u
        /\ budgets[b].month = month
        /\ budgets[b].year = year}

add_budget(u, month, year, budgeted_income, budgeted_expenses) ==
    /\ Authenticated(u)
    /\ LET existing == existing_budget(u, month, year)
       IN IF existing # {}
          THEN LET b == CHOOSE x \in existing : \A y \in existing : x <= y
               IN budgets' = [budgets EXCEPT
                                ![b].budgeted_income = budgeted_income,
                                ![b].budgeted_expenses = budgeted_expenses]
          ELSE budgets' = Insert(budgets, NextId(DOMAIN budgets),
                                 [user_id |-> u, month |-> month, year |-> year,
                                  budgeted_income |-> budgeted_income,
                                  budgeted_expenses |-> budgeted_expenses])
    /\ response' = "Available budget updated successfully!"
    /\ old_account_id' = None
    /\ UNCHANGED <<routing_number, result>>
    /\ UNCHANGED <<users, sessions, accounts, categories, transactions, investments,
                   opening>>

\* ---------------------------------------------------------------- full reset
\* Mutant: the budgets are left out of the reset.
all_budgets_forgotten == {}

all_users == DOMAIN users
all_accounts == DOMAIN accounts
all_transactions == DOMAIN transactions
all_investments == DOMAIN investments
all_categories == DOMAIN categories
all_budgets == DOMAIN budgets

reset_assets(u) ==
    /\ Authenticated(u)
    /\ transactions' = Remove(transactions, all_transactions)
    /\ investments' = Remove(investments, all_investments)
    /\ budgets' = Remove(budgets, all_budgets)
    /\ accounts' = Remove(accounts, all_accounts)
    /\ categories' = Remove(categories, all_categories)
    /\ users' = Remove(users, all_users)
    /\ opening' = Empty
    /\ sessions' = sessions \ {u}
    /\ response' = "Complete database reset successful"
    /\ old_account_id' = None
    /\ UNCHANGED <<routing_number, result>>

\* ---------------------------------------------------------------- net worth
\* sum(f(x) for x in S)
RECURSIVE sum(_, _)
sum(S, f) ==
    IF S = {} THEN 0
    ELSE LET x == CHOOSE y \in S : TRUE
         IN f[x] + sum(S \ {x}, f)

abs(n) == IF n < 0 THEN 0 - n ELSE n

\* hasattr(investment, 'current_value'): Investment defines total_value and
\* gain_loss, and no current_value.
hasattr_current_value == FALSE

api_net_worth(u) ==
    /\ Authenticated(u)
    /\ LET user_accounts == {a \in DOMAIN accounts : accounts[a].user_id = u}
           cash_assets ==
              sum({a \in user_accounts : accounts[a].balance > 0},
                  [a \in user_accounts |-> accounts[a].balance])
           liabilities ==
              abs(sum({a \in user_accounts : accounts[a].balance < 0},
                      [a \in user_accounts |-> accounts[a].balance]))
           user_investments ==
              {i \in DOMAIN investments : investments[i].account_id \in user_accounts}
           investment_assets ==
              sum(user_investments,
                  [i \in user_investments |->
                      IF hasattr_current_value /\ investments[i].current_value # None
                      THEN investments[i].current_value
                      ELSE investments[i].shares * investments[i].purchase_price])
           total_assets == cash_assets + investment_assets
       IN result' = [function |-> "api_net_worth",
                     outcome |-> Return([assets |-> total_assets,
                                         liabilities |-> liabilities,
                                         net_worth |-> total_assets - liabilities,
                                         cash_assets |-> cash_assets,
                                         investment_assets |-> investment_assets,
                                         account_count |-> Cardinality(user_accounts)])]
    /\ response' = "200"
    /\ old_account_id' = None
    /\ UNCHANGED <<tables, sessions, opening, routing_number>>

\* ---------------------------------------------------------------- the balance rule
\* effect(amount, kind) of the balance rule: the signed contribution of a transaction.
effect(amount, kind) ==
    IF kind = "income" THEN amount
    ELSE IF kind = "expense" THEN 0 - amount
    ELSE 0

EffectOf(t) == effect(t.amount, t.type)

\* The transactions currently attached to account a.
Attached(a) == {t \in DOMAIN transactions : transactions[t].account_id = a}

RECURSIVE SumEffects(_)
SumEffects(S) ==
    IF S = {} THEN 0
    ELSE LET t == CHOOSE x \in S : TRUE
         IN EffectOf(transactions[t]) + SumEffects(S \ {t})

Added == DOMAIN transactions' \ DOMAIN transactions
Deleted == DOMAIN transactions \ DOMAIN transactions'
Kept == DOMAIN transactions \cap DOMAIN transactions'

\* Every account other than those in S is left as it was.
OtherAccountsUnchanged(S) ==
    /\ DOMAIN accounts' = DOMAIN accounts
    /\ \A b \in DOMAIN accounts \ S : accounts'[b] = accounts[b]

\* C1: after every committed add_transaction, edit_transaction and
\* delete_transaction, each account's balance is its opening balance plus the sum
\* of effect(amount, kind) over the transactions attached to it.
C1_BalanceInvariant ==
    \A a \in DOMAIN accounts :
        accounts[a].balance = opening[a] + SumEffects(Attached(a))

\* An edit has committed and an account carries two transactions of non-zero sum.
C1_Witness ==
    /\ response = "Transaction updated successfully!"
    /\ \E a \in DOMAIN accounts :
          /\ Cardinality(Attached(a)) = 2
          /\ SumEffects(Attached(a)) # 0
          /\ accounts[a].balance = opening[a] + SumEffects(Attached(a))

\* C2: a committed step that moves a transaction from account A to another account
\* B takes the old effect off A and puts the new effect on B in that same step, and
\* touches no other account.
C2_MoveIsAtomic ==
    [][\A t \in Kept :
          LET A == transactions[t].account_id
              B == transactions'[t].account_id
          IN (A # B /\ A \in DOMAIN accounts /\ B \in DOMAIN accounts)
             => /\ accounts'[A].balance = accounts[A].balance - EffectOf(transactions[t])
                /\ accounts'[B].balance = accounts[B].balance + EffectOf(transactions'[t])
                /\ accounts'[A].user_id = accounts[A].user_id
                /\ accounts'[B].user_id = accounts[B].user_id
                /\ OtherAccountsUnchanged({A, B})]_vars

\* The only transaction was just moved off old_account_id onto another account,
\* with a non-zero effect.
C2_Witness ==
    /\ response = "Transaction updated successfully!"
    /\ old_account_id \in DOMAIN accounts
    /\ \E t \in DOMAIN transactions :
          /\ DOMAIN transactions = {t}
          /\ transactions[t].account_id \in DOMAIN accounts \ {old_account_id}
          /\ EffectOf(transactions[t]) # 0
          /\ accounts[old_account_id].balance = opening[old_account_id]
          /\ accounts[transactions[t].account_id].balance =
                opening[transactions[t].account_id] + EffectOf(transactions[t])

\* C3: add_transaction for an existing account adds exactly one transaction,
\* attached to that account, and sets that account's balance to its old balance
\* plus effect(new_amount, new_kind); no other account changes.
C3_CreateAdjustsTarget ==
    [][response' = "Transaction added successfully!"
       => \E t \in Added :
             /\ Added = {t}
             /\ Deleted = {}
             /\ \A k \in Kept : transactions'[k] = transactions[k]
             /\ LET a == transactions'[t].account_id
                IN a \in DOMAIN accounts
                   => /\ accounts'[a].balance =
                            accounts[a].balance + EffectOf(transactions'[t])
                      /\ accounts'[a].user_id = accounts[a].user_id
                      /\ OtherAccountsUnchanged({a})]_vars

\* An income or expense was just added to an existing account.
C3_Witness ==
    /\ response = "Transaction added successfully!"
    /\ \E t \in DOMAIN transactions :
          /\ transactions[t].account_id \in DOMAIN accounts
          /\ transactions[t].type = "expense"
          /\ DOMAIN transactions = {t}
          /\ accounts[transactions[t].account_id].balance =
                opening[transactions[t].account_id] - transactions[t].amount

\* C4: delete_transaction removes exactly the transaction and sets its account's
\* balance to the old balance minus effect(amount, kind) of the stored transaction;
\* no other account changes.
C4_DeleteRevertsEffect ==
    [][response' = "Transaction deleted successfully!"
       => \E t \in Deleted :
             /\ Deleted = {t}
             /\ Added = {}
             /\ \A k \in Kept : transactions'[k] = transactions[k]
             /\ LET a == transactions[t].account_id
                IN /\ a \in DOMAIN accounts
                   /\ accounts'[a].balance =
                         accounts[a].balance - EffectOf(transactions[t])
                   /\ accounts'[a].user_id = accounts[a].user_id
                   /\ OtherAccountsUnchanged({a})]_vars

\* A delete has committed: transaction 1 is gone while transaction 2, created after
\* it, still counts in its account's balance.
C4_Witness ==
    /\ response = "Transaction deleted successfully!"
    /\ DOMAIN transactions = {2}
    /\ transactions[2].account_id \in DOMAIN accounts
    /\ EffectOf(transactions[2]) # 0
    /\ accounts[transactions[2].account_id].balance =
          opening[transactions[2].account_id] + EffectOf(transactions[2])

\* C5: a transaction whose kind is neither income nor expense has effect 0:
\* creating or deleting one leaves every account as it was, and editing a
\* transaction to such a kind only takes the old effect off the old account.
C5_OtherKindsHaveNoEffect ==
    [][/\ (response' = "Transaction added successfully!"
           /\ \A t \in Added : transactions'[t].type \notin {"income", "expense"})
          => accounts' = accounts
       /\ (response' = "Transaction deleted successfully!"
           /\ \A t \in Deleted : transactions[t].type \notin {"income", "expense"})
          => accounts' = accounts
       /\ response' = "Transaction updated successfully!"
          => \A t \in Kept :
                (transactions'[t] # transactions[t]
                 /\ transactions'[t].type \notin {"income", "expense"})
                => \A a \in DOMAIN accounts :
                      accounts'[a].balance =
                         accounts[a].balance -
                            (IF a = transactions[t].account_id
                             THEN EffectOf(transactions[t]) ELSE 0)]_vars

\* A transfer was just added to an existing account, whose balance is still its
\* opening balance.
C5_Witness ==
    /\ response = "Transaction added successfully!"
    /\ \E t \in DOMAIN transactions :
          /\ DOMAIN transactions = {t}
          /\ transactions[t].type = "transfer"
          /\ transactions[t].account_id \in DOMAIN accounts
          /\ accounts[transactions[t].account_id].balance =
                opening[transactions[t].account_id]

\* C6: under every handler that writes accounts or transactions (edit_account
\* included), each account's balance exceeds the balance it was created with by
\* exactly the signed sum of the transactions attached to it.
C6_BalanceIsOpeningPlusTransactions ==
    \A a \in DOMAIN accounts :
        accounts[a].balance - opening[a] = SumEffects(Attached(a))

\* A transaction request of user u: add_transaction, edit_transaction or
\* delete_transaction with any form fields.
TransactionRequest(u) ==
    \/ \E f \in TransactionForms, a \in AccountIds :
          add_transaction(u, f.amount, f.type, None, a)
    \/ \E t \in TransactionIds, f \in TransactionForms, a \in AccountIds :
          edit_transaction(u, t, f.amount, f.type, None, a)
    \/ \E t \in TransactionIds : delete_transaction(u, t)

\* C7: no add_transaction, edit_transaction or delete_transaction request of an
\* authenticated user changes the balance of, or attaches a transaction to, an
\* account owned by a different user.
C7_OnlyOwnAccountsTouched ==
    [][\A u \in UserIds :
          TransactionRequest(u)
          => \A a \in DOMAIN accounts :
                accounts[a].user_id # u
                => /\ accounts'[a].balance = accounts[a].balance
                   /\ {t \in DOMAIN transactions' : transactions'[t].account_id = a}
                         \subseteq Attached(a)]_vars

\* Every answer a handler gives.
Responses ==
    {"none", "dashboard", "404", "500", "Username already exists!",
     "Registration successful! Please log in.",
     "You have been logged out successfully.", "Account added successfully!",
     "Invalid routing number. Please check and try again.",
     "Account updated successfully!", "Account deleted successfully.",
     "Transaction added successfully!", "Transaction updated successfully!",
     "Transaction deleted successfully!", "Investment added successfully!",
     "Category added successfully!", "Category not found!",
     "Cannot delete category", "Category deleted successfully!",
     "Available budget updated successfully!",
     "Complete database reset successful"}

\* An id no row of any table ever has.
NoSuchId == MaxAccounts + MaxTransactions + MaxCategories + 1

\* Request Req gives for the id `foreign` exactly the answers it gives for the id
\* `missing`, and changes no table.
SameOutcome(Req(_), foreign, missing) ==
    /\ \A r \in Responses :
          (ENABLED (Req(foreign) /\ response' = r))
             <=> (ENABLED (Req(missing) /\ response' = r))
    /\ ~ ENABLED (Req(foreign) /\ tables' # tables)

\* C8: for every handler that takes an account, transaction or category id, a
\* request naming a row of another user is answered as a request naming no row at
\* all, and changes no stored state.
C8_ForeignIdLooksMissing ==
    \A u \in UserIds :
       Authenticated(u)
       => /\ \A a \in DOMAIN accounts :
                accounts[a].user_id # u
                => /\ SameOutcome(LAMBDA x : edit_account(u, x, "Savings", "savings", 0,
                                                                <<>>, "", <<>>),
                                  a, NoSuchId)
                   /\ SameOutcome(LAMBDA x : delete_account(u, x), a, NoSuchId)
                   /\ SameOutcome(LAMBDA x : add_investment(u, 1, 10, None, x), a, NoSuchId)
                   /\ \A f \in TransactionForms :
                         /\ SameOutcome(LAMBDA x : add_transaction(u, f.amount, f.type,
                                                                   None, x),
                                        a, NoSuchId)
                         /\ \A t \in TransactionIds :
                               OwnsTransaction(u, t)
                               => SameOutcome(LAMBDA x : edit_transaction(u, t, f.amount,
                                                            f.type, None, x),
                                              a, NoSuchId)
          /\ \A t \in DOMAIN transactions :
                ~OwnsTransaction(u, t)
                => /\ SameOutcome(LAMBDA x : delete_transaction(u, x), t, NoSuchId)
                   /\ \A f \in TransactionForms, a \in DOMAIN accounts :
                         SameOutcome(LAMBDA x : edit_transaction(u, x, f.amount, f.type,
                                                                 None, a),
                                     t, NoSuchId)
          /\ \A c \in DOMAIN categories :
                categories[c].user_id # u
                => SameOutcome(LAMBDA x : delete_category(u, x), c, NoSuchId)

\* The transactions that reference category c.
Refs(c) == {t \in DOMAIN transactions : transactions[t].category_id = c}

\* C9: delete_category on a category the caller owns changes nothing and is
\* answered with a rejection when a transaction references the category, and
\* removes exactly that category when none does; a category that delete_category
\* removes is referenced by no transaction afterwards.
C9_DeleteCategoryGuard ==
    [][\A u \in UserIds, c \in CategoryIdsToDelete :
          (delete_category(u, c) /\ c \in DOMAIN categories /\ categories[c].user_id = u)
          => IF Refs(c) # {}
             THEN /\ tables' = tables
                  /\ response' = "Cannot delete category"
             ELSE /\ categories' = [x \in DOMAIN categories \ {c} |-> categories[x]]
                  /\ <<users, accounts, transactions, investments, budgets>>' =
                        <<users, accounts, transactions, investments, budgets>>
                  /\ response' = "Category deleted successfully!"
                  /\ \A t \in DOMAIN transactions' : transactions'[t].category_id # c]_vars

\* A deletion of category 1 was just rejected: its owner is logged in and a
\* transaction references it.
C9_Witness ==
    /\ response = "Cannot delete category"
    /\ 1 \in DOMAIN categories
    /\ Authenticated(categories[1].user_id)
    /\ Refs(1) # {}

\* C10: the step in which reset_assets commits leaves the user, account, category,
\* transaction, investment and monthly-budget tables all empty at once, and removes
\* the requesting user's session.
C10_ResetEmptiesEverything ==
    [][response' = "Complete database reset successful"
       => /\ DOMAIN users' = {}
          /\ DOMAIN accounts' = {}
          /\ DOMAIN categories' = {}
          /\ DOMAIN transactions' = {}
          /\ DOMAIN investments' = {}
          /\ DOMAIN budgets' = {}
          /\ \E u \in sessions \cap DOMAIN users : sessions' = sessions \ {u}]_vars

\* A reset has just committed while the other user was logged in too: every table
\* is empty and only the other user's session is left.
C10_Witness ==
    /\ response = "Complete database reset successful"
    /\ DOMAIN users = {} /\ DOMAIN accounts = {} /\ DOMAIN categories = {}
    /\ DOMAIN transactions = {} /\ DOMAIN investments = {} /\ DOMAIN budgets = {}
    /\ Cardinality(sessions) = 1

\* C11: the step in which delete_account removes an account of the caller removes
\* exactly that account together with every transaction and investment attached to
\* it, and leaves every other account, with its balance and its transactions, as
\* it was.
C11_DeleteAccountCascades ==
    [][response' = "Account deleted successfully."
       => \E a \in DOMAIN accounts :
             /\ Authenticated(accounts[a].user_id)
             /\ DOMAIN accounts' = DOMAIN accounts \ {a}
             /\ \A t \in DOMAIN transactions' : transactions'[t].account_id # a
             /\ \A i \in DOMAIN investments' : investments'[i].account_id # a
             /\ \A b \in DOMAIN accounts' :
                   /\ accounts'[b] = accounts[b]
                   /\ {t \in DOMAIN transactions' : transactions'[t].account_id = b}
                         = Attached(b)
                   /\ \A t \in Attached(b) : transactions'[t] = transactions[t]]_vars

\* Account 2 was just deleted with the transaction (id 1) attached to it, while
\* account 1 keeps its own transaction (id 2) and the balance that goes with it.
C11_Witness ==
    /\ response = "Account deleted successfully."
    /\ DOMAIN accounts = {1}
    /\ DOMAIN transactions = {2}
    /\ DOMAIN investments = {}
    /\ transactions[2].account_id = 1
    /\ EffectOf(transactions[2]) # 0
    /\ accounts[1].balance = opening[1] + EffectOf(transactions[2])

\* ---------------------------------------------------------------- routing claims
\* c is one of the ten decimal digits.
DecimalDigit(c) == c \in {"0", "1", "2", "3", "4", "5", "6", "7", "8", "9"}

\* The value of a decimal digit.
DigitValue(c) ==
    CASE c = "0" -> 0 [] c = "1" -> 1 [] c = "2" -> 2 [] c = "3" -> 3 [] c = "4" -> 4
      [] c = "5" -> 5 [] c = "6" -> 6 [] c = "7" -> 7 [] c = "8" -> 8 [] c = "9" -> 9

\* The ABA check: nine decimal digits whose sum with weights 3,7,1,3,7,1,3,7,1 is a
\* multiple of 10.
ChecksumValid(s) ==
    /\ Len(s) = 9
    /\ \A i \in 1..9 : DecimalDigit(s[i])
    /\ (3 * DigitValue(s[1]) + 7 * DigitValue(s[2]) + DigitValue(s[3])
        + 3 * DigitValue(s[4]) + 7 * DigitValue(s[5]) + DigitValue(s[6])
        + 3 * DigitValue(s[7]) + 7 * DigitValue(s[8]) + DigitValue(s[9])) % 10 = 0

\* s without its hyphens and spaces.
Normalized(s) == SelectSeq(s, LAMBDA c : c \notin {"-", " "})

Validated == result.function = "validate_routing_number"
LookedUp == result.function = "lookup_bank_by_routing"
Suggested == result.function = "get_bank_suggestions"

\* C12: validate_routing_number(s) returns true exactly when s is nine decimal
\* digits whose weighted sum is a multiple of 10, and returns false, without
\* raising, on every other string.
C12_ValidateIsTheAbaCheck ==
    Validated
    => /\ ~result.outcome.raised
       /\ result.outcome.value = ChecksumValid(routing_number)

\* C13: when the input without its hyphens and spaces fails the check,
\* lookup_bank_by_routing returns valid = false with the error "Invalid routing
\* number format or checksum" and no bank name.
C13_LookupRejectsInvalid ==
    (LookedUp /\ ~ChecksumValid(Normalized(routing_number)))
    => /\ ~result.outcome.raised
       /\ result.outcome.value =
             [valid |-> FALSE, error |-> "Invalid routing number format or checksum"]

\* The database entry of routing number s.
Entry(s) ==
    BANK_ROUTING_DATABASE[CHOOSE i \in DOMAIN BANK_ROUTING_DATABASE :
                             BANK_ROUTING_DATABASE[i].routing = s]

\* C14: for an input whose normalized form passes the check and is a key of the
\* database, lookup_bank_by_routing returns valid = true, source "direct_match",
\* the bank name of the entry, the normalized input as routing_number, and the
\* region of the first four digits, "Unknown Region" when the region table has
\* no such prefix.
C14_DirectMatch ==
    (LookedUp /\ ChecksumValid(Normalized(routing_number))
              /\ Normalized(routing_number) \in routings)
    => /\ ~result.outcome.raised
       /\ result.outcome.value =
             [valid |-> TRUE,
              source |-> "direct_match",
              bank_name |-> Entry(Normalized(routing_number)).bank,
              routing_number |-> Normalized(routing_number),
              region |->
                 IF \E r \in ROUTING_REGIONS :
                       r.prefix = SubSeq(Normalized(routing_number), 1, 4)
                 THEN (CHOOSE r \in ROUTING_REGIONS :
                          r.prefix = SubSeq(Normalized(routing_number), 1, 4)).region
                 ELSE "Unknown Region"]

\* "021-000-021" was looked up: Chase Bank, in the Boston region.
C14_Witness ==
    /\ LookedUp
    /\ routing_number = <<"0", "2", "1", "-", "0", "0", "0", "-", "0", "2", "1">>
    /\ result.outcome.value.source = "direct_match"
    /\ result.outcome.value.bank_name = "Chase Bank"
    /\ result.outcome.value.region = "Boston, MA"

\* The three-digit prefixes a bank is guessed from, with the name the guess gives.
GuessPrefixes ==
    { [prefix |-> <<"0", "2", "1">>, bank_name |-> "Chase Bank (likely)"],
      [prefix |-> <<"2", "6", "7">>, bank_name |-> "Chase Bank (likely)"],
      [prefix |-> <<"0", "6", "3">>, bank_name |-> "Chase Bank (likely)"],
      [prefix |-> <<"1", "2", "1">>, bank_name |-> "Wells Fargo Bank (likely)"],
      [prefix |-> <<"1", "2", "5">>, bank_name |-> "Wells Fargo Bank (likely)"],
      [prefix |-> <<"1", "1", "1">>, bank_name |-> "Bank of America (likely)"],
      [prefix |-> <<"0", "2", "6">>, bank_name |-> "Bank of America (likely)"],
      [prefix |-> <<"0", "5", "3">>, bank_name |-> "Bank of America (likely)"],
      [prefix |-> <<"0", "5", "4">>, bank_name |-> "Bank of America (likely)"],
      [prefix |-> <<"1", "1", "4">>, bank_name |-> "PNC Bank (likely)"],
      [prefix |-> <<"0", "4", "3">>, bank_name |-> "PNC Bank (likely)"],
      [prefix |-> <<"3", "2", "2">>, bank_name |-> "Regions Bank (likely)"],
      [prefix |-> <<"0", "6", "2">>, bank_name |-> "Regions Bank (likely)"] }

\* C15: for an input whose normalized form passes the check and is no key of the
\* database, lookup_bank_by_routing returns valid = true; with a guess prefix the
\* bank name is the guessed name with "(likely)" and the source "pattern_match",
\* without one the bank name is "Unknown Bank" and the source "region_only".
C15_GuessOrUnknown ==
    (LookedUp /\ ChecksumValid(Normalized(routing_number))
              /\ Normalized(routing_number) \notin routings)
    => /\ ~result.outcome.raised
       /\ result.outcome.value.valid = TRUE
       /\ LET three == SubSeq(Normalized(routing_number), 1, 3)
          IN IF \E g \in GuessPrefixes : g.prefix = three
             THEN /\ \E g \in GuessPrefixes :
                        /\ g.prefix = three
                        /\ result.outcome.value.bank_name = g.bank_name
                  /\ result.outcome.value.source = "pattern_match"
             ELSE /\ result.outcome.value.bank_name = "Unknown Bank"
                  /\ result.outcome.value.source = "region_only"

\* "111111118" was looked up: not in the database, guessed as Bank of America.
C15_Witness ==
    /\ LookedUp
    /\ routing_number = <<"1", "1", "1", "1", "1", "1", "1", "1", "8">>
    /\ result.outcome.value.valid = TRUE
    /\ result.outcome.value.bank_name = "Bank of America (likely)"
    /\ result.outcome.value.source = "pattern_match"

\* The database entries whose routing number starts with s.
Matching(s) ==
    {i \in DOMAIN BANK_ROUTING_DATABASE :
        /\ Len(s) <= Len(BANK_ROUTING_DATABASE[i].routing)
        /\ \A j \in 1..Len(s) : BANK_ROUTING_DATABASE[i].routing[j] = s[j]}

\* The suggestion the database entry i gives: its routing number, its bank name
\* and the routing number written DDD-DDD-DDD.
Suggestion(i) ==
    LET k == BANK_ROUTING_DATABASE[i].routing
    IN [routing_number |-> k,
        bank_name |-> BANK_ROUTING_DATABASE[i].bank,
        formatted_routing |->
           <<k[1], k[2], k[3], "-", k[4], k[5], k[6], "-", k[7], k[8], k[9]>>]

\* C16: get_bank_suggestions returns the empty list for a partial of fewer than
\* three characters; otherwise at most 10 suggestions, each made from a database
\* entry whose routing number starts with the partial, in ascending order of bank
\* name, and all of the matching entries when there are 10 or fewer.
C16_Suggestions ==
    Suggested
    => /\ ~result.outcome.raised
       /\ LET list == result.outcome.value
          IN IF Len(routing_number) < 3
             THEN list = <<>>
             ELSE /\ Len(list) <= 10
                  /\ \A n \in DOMAIN list :
                        \E i \in Matching(routing_number) : list[n] = Suggestion(i)
                  /\ \A m, n \in DOMAIN list :
                        m < n => bank_name_key(list[m].bank_name)
                                    <= bank_name_key(list[n].bank_name)
                  /\ Cardinality(Matching(routing_number)) <= 10
                     => \A i \in Matching(routing_number) :
                           \E n \in DOMAIN list : list[n] = Suggestion(i)

\* "031" was suggested for: the four entries that start with it, Ally Bank first
\* although the database lists it third, and TD Bank last.
C16_Witness ==
    /\ Suggested
    /\ routing_number = <<"0", "3", "1">>
    /\ Len(result.outcome.value) = 4
    /\ result.outcome.value[1].bank_name = "Ally Bank"
    /\ result.outcome.value[1].formatted_routing =
          <<"0", "3", "1", "-", "1", "7", "6", "-", "1", "1", "0">>
    /\ result.outcome.value[4].bank_name = "TD Bank"

\* The budgets of user u for the period (month, year).
BudgetsOf(u, month, year) ==
    {b \in DOMAIN budgets :
        budgets[b].user_id = u /\ budgets[b].month = month /\ budgets[b].year = year}

\* C17: every add_budget request leaves each user with at most one budget per
\* (month, year); for a period the user has a budget for, it rewrites the income
\* and expense amounts of that budget and adds no row, otherwise it adds the one
\* row; it changes no other budget, of this user or of another.
C17_OneBudgetPerPeriod ==
    [][\A u \in UserIds, p \in BudgetPeriods, i \in BudgetAmounts, e \in BudgetAmounts :
          add_budget(u, p.month, p.year, i, e)
          => LET old == BudgetsOf(u, p.month, p.year)
                 row == [user_id |-> u, month |-> p.month, year |-> p.year,
                         budgeted_income |-> i, budgeted_expenses |-> e]
             IN /\ \A b, c \in DOMAIN budgets' :
                      (/\ budgets'[b].user_id = budgets'[c].user_id
                       /\ budgets'[b].month = budgets'[c].month
                       /\ budgets'[b].year = budgets'[c].year) => b = c
                /\ \A b \in DOMAIN budgets \ old :
                      b \in DOMAIN budgets' /\ budgets'[b] = budgets[b]
                /\ IF old # {}
                   THEN /\ DOMAIN budgets' = DOMAIN budgets
                        /\ \A b \in old : budgets'[b] = row
                   ELSE \E b \in DOMAIN budgets' \ DOMAIN budgets :
                           /\ DOMAIN budgets' = DOMAIN budgets \cup {b}
                           /\ budgets'[b] = row]_vars

\* After an add_budget both users hold a budget for each period, four rows in all,
\* and the first row carries non-zero amounts.
C17_Witness ==
    /\ response = "Available budget updated successfully!"
    /\ Cardinality(DOMAIN budgets) = 4
    /\ \A u \in UserIds, p \in BudgetPeriods :
          Cardinality(BudgetsOf(u, p.month, p.year)) = 1
    /\ budgets[1].budgeted_income = 100
    /\ budgets[1].budgeted_expenses = 100

\* C18: add_category with a name the caller already has a category of is answered
\* with a rejection that gives its reason, not with a server error, and leaves the
\* categories as they were; after every add_category no user has two categories
\* of one name.
C18_DuplicateCategoryRejected ==
    [][\A u \in UserIds, n \in CategoryNames :
          add_category(u, n, "expense")
          => /\ (\E c \in DOMAIN categories :
                    categories[c].name = n /\ categories[c].user_id = u)
                => /\ categories' = categories
                   /\ response' \notin {"500", "404"}
             /\ \A c, e \in DOMAIN categories' :
                   (/\ categories'[c].name = categories'[e].name
                    /\ categories'[c].user_id = categories'[e].user_id) => c = e]_vars

\* The value of investment i: shares times the current price when there is one,
\* shares times the purchase price otherwise.
InvestmentValue(i) ==
    IF investments[i].current_price # None
    THEN investments[i].shares * investments[i].current_price
    ELSE investments[i].shares * investments[i].purchase_price

\* The net-worth snapshot of user u.
NetWorth(u) ==
    LET own == {a \in DOMAIN accounts : accounts[a].user_id = u}
        cash == sum({a \in own : accounts[a].balance > 0},
                    [a \in own |-> accounts[a].balance])
        debt == sum({a \in own : accounts[a].balance < 0},
                    [a \in own |-> accounts[a].balance])
        held == sum({i \in DOMAIN investments : investments[i].account_id \in own},
                    [i \in DOMAIN investments |-> InvestmentValue(i)])
    IN [cash_assets |-> cash,
        liabilities |-> IF debt < 0 THEN 0 - debt ELSE debt,
        investment_assets |-> held,
        assets |-> cash + held,
        net_worth |-> cash + held - (IF debt < 0 THEN 0 - debt ELSE debt),
        account_count |-> Cardinality(own)]

\* C19: the snapshot api_net_worth answers with is the user's positive balances
\* as cash assets, the absolute value of the negative ones as liabilities, the
\* investments at current value (at purchase value without a current price) as
\* investment assets, their sum as assets, assets less liabilities as net worth,
\* and the number of the user's accounts.
C19_NetWorthSnapshot ==
    [][\A u \in UserIds :
          api_net_worth(u) => result'.outcome.value = NetWorth(u)]_vars

\* C20: an edit_transaction that keeps the transaction on its account changes that
\* account's balance by effect(new_amount, new_kind) - effect(old_amount, old_kind)
\* and no other account; with the amount and the kind kept too, the balance stays.
\* (The form of the edit is read off the transaction it leaves.)
C20_SameAccountEdit ==
    [][\A t \in Kept :
          LET a == transactions[t].account_id
              new == transactions'[t]
          IN (/\ response' = "Transaction updated successfully!"
              /\ old_account_id' = a
              /\ \E u \in UserIds :
                    /\ OwnsTransaction(u, t)
                    /\ edit_transaction(u, t, new.amount, new.type, None, a))
             => /\ accounts'[a].balance =
                      accounts[a].balance + effect(new.amount, new.type)
                         - effect(transactions[t].amount, transactions[t].type)
                /\ (new.amount = transactions[t].amount /\ new.type = transactions[t].type)
                      => accounts'[a].balance = accounts[a].balance
                /\ accounts'[a].user_id = accounts[a].user_id
                /\ OtherAccountsUnchanged({a})]_vars

\* An edit has just left the only transaction, now an expense, on its account, and
\* the account's balance is its opening balance less the expense.
C20_Witness ==
    /\ response = "Transaction updated successfully!"
    /\ \E t \in DOMAIN transactions :
          /\ DOMAIN transactions = {t}
          /\ transactions[t].account_id = old_account_id
          /\ old_account_id \in DOMAIN accounts
          /\ transactions[t].type = "expense"
          /\ accounts[old_account_id].balance =
                opening[old_account_id] - transactions[t].amount

\* C21: a transaction request that fails before its commit changes neither a
\* balance nor a transaction row, and in every step the change of each account's
\* balance is the change of the signed sum of the transactions attached to it:
\* the two are written in the same commit.
C21_CommitTogetherOrNotAtAll ==
    [][/\ response' \in {"500", "404"}
          => accounts' = accounts /\ transactions' = transactions
       /\ (accounts' # accounts \/ transactions' # transactions)
          => \A a \in DOMAIN accounts \cap DOMAIN accounts' :
                accounts'[a].balance - accounts[a].balance =
                   (opening[a] + SumEffects(Attached(a)))'
                      - (opening[a] + SumEffects(Attached(a)))]_vars

\* A request has just failed on an account that does not exist: the only
\* transaction still counts in the balance of its account.
C21_Witness ==
    /\ response = "500"
    /\ \E t \in DOMAIN transactions :
          /\ DOMAIN transactions = {t}
          /\ EffectOf(transactions[t]) # 0
          /\ transactions[t].account_id \in DOMAIN accounts
          /\ accounts[transactions[t].account_id].balance =
                opening[transactions[t].account_id] + EffectOf(transactions[t])

\* The routing numbers of the account forms that, once the blanks around them are
\* stripped, are not empty, are no valid routing number, and make
\* validate_routing_number return.
RejectedRoutingForms ==
    {r \in AccountRoutingForms :
        /\ strip(r) # <<>>
        /\ ~ChecksumValid(strip(r))
        /\ ~validate_routing_number(strip(r)).raised}

\* The request Req can only leave every table as it is and answer "Invalid
\* routing number".
OnlyRejected(Req) ==
    ~ ENABLED (Req /\ ~(/\ tables' = tables
                        /\ response' = "Invalid routing number. Please check and try again."))

\* C22: in every reachable state, add_account and edit_account with a routing
\* number that validate_routing_number rejects can only answer "Invalid routing
\* number" and write nothing: no account is added, and the account under edit
\* keeps its name, type, balance, routing number, bank name and account number.
C22_InvalidRoutingRejected ==
    \A u \in UserIds, r \in RejectedRoutingForms, n \in AccountNumberForms :
       /\ \A b \in Balances :
             OnlyRejected(add_account(u, "Checking", "checking", b, r, "", n))
       /\ \A a \in DOMAIN accounts, bn \in BankNameForms :
             OwnsAccount(u, a)
             => OnlyRejected(edit_account(u, a, "Savings", "savings", 0, r, bn, n))

\* An edit with a rejected routing number was just turned down: account 1 still
\* has the name, type, balance, bank, routing number and account number that
\* add_account gave it.
C22_Witness ==
    /\ response = "Invalid routing number. Please check and try again."
    /\ 1 \in DOMAIN accounts
    /\ accounts[1].name = "Checking"
    /\ accounts[1].account_type = "checking"
    /\ accounts[1].balance = opening[1]
    /\ accounts[1].bank_name = "Chase Bank"
    /\ accounts[1].routing_number = <<"0", "2", "1", "0", "0", "0", "0", "2", "1">>
    /\ accounts[1].account_number = <<"1", "2", "-", "3", "4", "5", "6">>
    /\ accounts[1].account_number_last4 = <<"3", "4", "5", "6">>

\* A digit character: a decimal digit, or another character that Python counts
\* among the digits (superscript two).
DigitCharacter(c) == DecimalDigit(c) \/ c = "sup2"

\* The last n digit characters of s in their order, all of them when s has fewer.
RECURSIVE LastDigits(_, _)
LastDigits(s, n) ==
    IF s = <<>> \/ n = 0 THEN <<>>
    ELSE IF DigitCharacter(s[Len(s)])
    THEN Append(LastDigits(SubSeq(s, 1, Len(s) - 1), n - 1), s[Len(s)])
    ELSE LastDigits(SubSeq(s, 1, Len(s) - 1), n)

\* C23: in every reachable state, an account without an account number has no
\* account_number_last4, and an account with one has as account_number_last4 the
\* last four digit characters of the number, all of its digits when it has fewer
\* than four.  Every step ends in such a state, so no request leaves one of the
\* two fields changed and the other not recomputed from it.
C23_Last4FollowsAccountNumber ==
    \A a \in DOMAIN accounts :
       IF accounts[a].account_number = <<>>
       THEN accounts[a].account_number_last4 = <<>>
       ELSE accounts[a].account_number_last4 =
               LastDigits(accounts[a].account_number, 4)

\* An edit has just replaced an account number: account 1, added without a
\* number, now has one of six digits, and account 2, added with that number, now
\* has one of two digits.
C23_Witness ==
    /\ response = "Account updated successfully!"
    /\ DOMAIN accounts = {1, 2}
    /\ accounts[1].account_number = <<"1", "2", "-", "3", "4", "5", "6">>
    /\ accounts[1].account_number_last4 = <<"3", "4", "5", "6">>
    /\ accounts[1].name = "Savings"
    /\ accounts[2].account_number = <<"a", "7", "sup2">>
    /\ accounts[2].account_number_last4 = <<"7", "sup2">>
    /\ accounts[2].name = "Savings"

\* The price that counts for an investment: its current price if it has one,
\* and its purchase price otherwise.
PriceOf(investment) ==
    IF investment.current_price # None
    THEN investment.current_price
    ELSE investment.purchase_price

\* C24: the gain_loss read from an investment is its shares times the difference
\* between the price that counts and the purchase price: 0 without a current
\* price, and shares * (current_price - purchase_price) with one.
C24_GainLoss ==
    result.function = "gain_loss"
    => result.outcome =
          Return(result.self.shares
                    * (PriceOf(result.self) - result.self.purchase_price))

\* C25: in every reachable state, the account_id of every transaction is the id
\* of an account of the store: no request leaves a committed transaction on a
\* missing account.
C25_TransactionsHaveAccounts ==
    \A t \in DOMAIN transactions : transactions[t].account_id \in DOMAIN accounts

\* The lookup was called on the formatted_routing of a suggestion.
LookedUpSuggestion == LookedUp /\ "suggestion" \in DOMAIN result

\* C26: validate_routing_number returns true on every routing number of the
\* database, and lookup_bank_by_routing on the formatted_routing of an entry that
\* get_bank_suggestions returned gives valid = true, source "direct_match", and
\* the routing_number and bank_name of that entry.
C26_SuggestionsLookUp ==
    /\ (Validated /\ \E i \in DOMAIN BANK_ROUTING_DATABASE :
                        BANK_ROUTING_DATABASE[i].routing = routing_number)
       => result.outcome = Return(TRUE)
    /\ LookedUpSuggestion
       => /\ ~result.outcome.raised
          /\ DOMAIN result.outcome.value =
                {"valid", "bank_name", "routing_number", "region", "source"}
          /\ result.outcome.value.valid = TRUE
          /\ result.outcome.value.source = "direct_match"
          /\ result.outcome.value.routing_number = result.suggestion.routing_number
          /\ result.outcome.value.bank_name = result.suggestion.bank_name

\* The second of the four suggestions for "031" was looked up by its formatted
\* routing number: Discover Bank, a direct match.
C26_Witness ==
    /\ LookedUpSuggestion
    /\ routing_number = result.suggestion.formatted_routing
    /\ Len(routing_number) = 11
    /\ SubSeq(routing_number, 1, 4) = <<"0", "3", "1", "-">>
    /\ result.suggestion.bank_name = "Discover Bank"
    /\ result.outcome.value.source = "direct_match"
    /\ result.outcome.value.bank_name = result.suggestion.bank_name
    /\ result.outcome.value.routing_number = Normalized(routing_number)

\* ---------------------------------------------------------------- specifications
\* Two users registered and logged in: the state Spec reaches from Init by
\* register("alice"), register("bob"), login(1), login(2).
InitLedger ==
    /\ users = [u \in UserIds |-> IF u = 1 THEN "alice" ELSE "bob"]
    /\ sessions = UserIds
    /\ accounts = Empty
    /\ categories =
         [c \in 1..(2 * Len(DefaultCategories)) |->
            [name |-> DefaultCategories[((c - 1) % Len(DefaultCategories)) + 1].name,
             type |-> DefaultCategories[((c - 1) % Len(DefaultCategories)) + 1].type,
             user_id |-> ((c - 1) \div Len(DefaultCategories)) + 1]]
    /\ transactions = Empty
    /\ investments = Empty
    /\ budgets = Empty
    /\ opening = Empty
    /\ response = "dashboard"
    /\ old_account_id = None
    /\ routing_number = <<>>
    /\ result = NoCall

NextLedger ==
    \/ \E u \in UserIds, b \in Balances :
            add_account(u, "Checking", "checking", b, <<>>, "", <<>>)
    \/ \E u \in UserIds, f \in TransactionForms, a \in AccountIds :
            add_transaction(u, f.amount, f.type, None, a)
    \/ \E u \in UserIds, t \in TransactionIds, f \in TransactionForms, a \in AccountIds :
            edit_transaction(u, t, f.amount, f.type, None, a)
    \/ \E u \in UserIds, t \in TransactionIds : delete_transaction(u, t)

SpecLedger == InitLedger /\ [][NextLedger]_vars

\* The ledger with the account handlers that rewrite or remove accounts.
NextAccounts ==
    \/ NextLedger
    \/ \E u \in UserIds, a \in AccountIds, b \in Balances \cup {0} :
            edit_account(u, a, "Checking", "checking", b, <<>>, "", <<>>)
    \/ \E u \in UserIds, a \in AccountIds : delete_account(u, a)

SpecAccounts == InitLedger /\ [][NextAccounts]_vars

\* The category handlers, with transactions of one form on account 1 that name a
\* category.
NextCategories ==
    \/ \E b \in Balances :
            add_account(1, "Checking", "checking", b, <<>>, "", <<>>)
    \/ \E u \in UserIds, c \in CategoryIdInputs : add_transaction(u, 1, "income", c, 1)
    \/ \E u \in UserIds, t \in TransactionIds, c \in CategoryIdInputs :
            edit_transaction(u, t, 1, "income", c, 1)
    \/ \E u \in UserIds, t \in TransactionIds : delete_transaction(u, t)
    \/ \E u \in UserIds, n \in CategoryNames : add_category(u, n, "expense")
    \/ \E u \in UserIds, c \in CategoryIdsToDelete : delete_category(u, c)

SpecCategories == InitLedger /\ [][NextCategories]_vars

\* Accounts with transactions and investments on them, and their deletion.
NextCascade ==
    \/ \E u \in UserIds, b \in Balances :
            add_account(u, "Checking", "checking", b, <<>>, "", <<>>)
    \/ \E u \in UserIds, a \in AccountIds : add_transaction(u, 1, "income", None, a)
    \/ \E u \in UserIds, a \in AccountIds : add_investment(u, 2, 10, 15, a)
    \/ \E u \in UserIds, a \in AccountIds : delete_account(u, a)

SpecCascade == InitLedger /\ [][NextCascade]_vars

\* The bank_lookup functions called on each argument string.
InitRouting ==
    /\ users = Empty
    /\ sessions = {}
    /\ accounts = Empty
    /\ categories = Empty
    /\ transactions = Empty
    /\ investments = Empty
    /\ budgets = Empty
    /\ opening = Empty
    /\ response = "none"
    /\ old_account_id = None
    /\ routing_number \in RoutingInputs
    /\ result = NoCall

NextRouting ==
    \/ call_validate_routing_number
    \/ call_lookup_bank_by_routing
    \/ call_get_bank_suggestions

SpecRouting == InitRouting /\ [][NextRouting]_vars

\* The bank_lookup functions, with the lookup of a suggested routing number.
NextSuggestions ==
    \/ NextRouting
    \/ \E n \in SuggestionPositions : call_lookup_bank_by_routing_on_suggestion(n)

SpecSuggestions == InitRouting /\ [][NextSuggestions]_vars

\* The budget form, posted by both users for two periods.
NextBudgets ==
    \E u \in UserIds, p \in BudgetPeriods, i \in BudgetAmounts, e \in BudgetAmounts :
        add_budget(u, p.month, p.year, i, e)

SpecBudgets == InitLedger /\ [][NextBudgets]_vars

\* Accounts in credit and in debt, investments with and without a current price,
\* and the net-worth snapshot.
NextNetWorth ==
    \/ \E u \in UserIds, b \in Balances \cup {-3} :
            add_account(u, "Checking", "checking", b, <<>>, "", <<>>)
    \/ \E u \in UserIds, f \in InvestmentForms, a \in AccountIds :
            add_investment(u, f.shares, f.purchase_price, f.current_price, a)
    \/ \E u \in UserIds : api_net_worth(u)

SpecNetWorth == InitLedger /\ [][NextNetWorth]_vars

\* Investments and the reads of their derived values.
InvestmentIds == 1..MaxInvestments

NextInvestments ==
    \/ \E u \in UserIds, b \in Balances :
            add_account(u, "Checking", "checking", b, <<>>, "", <<>>)
    \/ \E u \in UserIds, f \in InvestmentForms, a \in AccountIds :
            add_investment(u, f.shares, f.purchase_price, f.current_price, a)
    \/ \E i \in InvestmentIds : call_total_value(i)
    \/ \E i \in InvestmentIds : call_gain_loss(i)

SpecInvestments == InitLedger /\ [][NextInvestments]_vars

\* The account forms with their bank fields.
NextAccountForms ==
    \/ \E b \in Balances, r \in AccountRoutingForms, n \in AccountNumberForms :
            add_account(1, "Checking", "checking", b, r, "", n)
    \/ \E a \in AccountIds, r \in AccountRoutingForms, bn \in BankNameForms,
          n \in AccountNumberForms :
            edit_account(1, a, "Savings", "savings", 0, r, bn, n)

SpecAccountForms == InitLedger /\ [][NextAccountForms]_vars

\* The whole life of the store, from the empty database to the full reset.
Next ==
    \/ \E n \in Usernames : register(n)
    \/ \E u \in UserIds : login(u)
    \/ \E u \in UserIds : logout(u)
    \/ \E u \in UserIds, b \in Balances :
            add_account(u, "Checking", "checking", b, <<>>, "", <<>>)
    \/ \E u \in UserIds : add_transaction(u, 1, "income", None, 1)
    \/ \E u \in UserIds : add_investment(u, 1, 10, None, 1)
    \/ \E u \in UserIds, m \in Months, y \in Years, i \in BudgetAmounts :
            add_budget(u, m, y, i, 0)
    \/ \E u \in UserIds : reset_assets(u)

Spec == Init /\ [][Next]_vars
====
